---- MODULE Spec2Model ----
(***************************************************************************)
(* Model of nnstreamer_example_multi_model_servo.py: two detector          *)
(* callbacks (face, hand) decode and NMS-filter candidates into two shared *)
(* lists, a draw callback reads both lists, selects the largest face,      *)
(* drives the pan/tilt servos and flags hands close to faces.              *)
(*                                                                         *)
(* Numbers.  Box coordinates are integers (pixels).  prob is the score in  *)
(* per mille.  pan, tilt and the servo angles are kept in units of 1/180   *)
(* degree (GAIN units per degree), so that "pan - errorPan / 180" is exact *)
(* integer arithmetic: the angle 90 is 90 * GAIN.  An IoU is a fraction    *)
(* num/den with den > 0, or the ZeroDivisionError the division raises.     *)
(***************************************************************************)
EXTENDS Integers, Sequences, FiniteSets, TLC

\* ------------------------------------------------------------ constants
BOX_SIZE == 4
FACE_LABEL_SIZE == 2
HAND_LABEL_SIZE == 2
MAX_OBJECT_DETECTION == 5
VIDEO_WIDTH == 640
VIDEO_HEIGHT == 480
MODEL_WIDTH == 300
MODEL_HEIGHT == 300
\* the divisor of "errorPan / 180": one degree is GAIN units of pan and tilt
GAIN == 180
PAN_INIT == 90
TILT_INIT == 90
PAN_MAX == 180
TILT_MAX == 135
DEADBAND == 5
\* the inflation "- 50" / "+ 50" of a face rectangle in hand_drawer
MARGIN == 50

Max(a, b) == IF a >= b THEN a ELSE b
Min(a, b) == IF a <= b THEN a ELSE b
Abs(a) == IF a < 0 THEN -a ELSE a

Box(x, y, w, h) == [x |-> x, y |-> y, width |-> w, height |-> h]
Det(c, x, y, w, h, p) ==
    [class_id |-> c, x |-> x, y |-> y, width |-> w, height |-> h, prob |-> p]

\* ------------------------------------------------------------------ iou
\* A float result: a fraction with a positive denominator, or a raised error.
Value(n, d) == [raised |-> FALSE, num |-> n, den |-> d]
ZeroDivisionError == [raised |-> TRUE, num |-> 0, den |-> 1]

\* w * h of the overlap rectangle, with the "+ 1" of lines 283-284
IouInter(A, B) ==
    LET x1 == Max(A.x, B.x)
        y1 == Max(A.y, B.y)
        x2 == Min(A.x + A.width, B.x + B.width)
        y2 == Min(A.y + A.height, B.y + B.height)
        w == Max(0, x2 - x1 + 1)
        h == Max(0, y2 - y1 + 1)
    IN w * h

\* areaA + areaB - inter, the divisor of line 288
IouUnion(A, B) == A.width * A.height + B.width * B.height - IouInter(A, B)

\* "return o if o >= 0 else 0" for o = inter / den, inter >= 0, den # 0:
\* a negative quotient (and -0.0) is 0
IouCoerce(inter, den) == IF den > 0 THEN Value(inter, den) ELSE Value(0, 1)

iou(A, B) ==
    LET inter == IouInter(A, B)
        den == IouUnion(A, B)
    IN IF den = 0 THEN ZeroDivisionError ELSE IouCoerce(inter, den)

\* "self.iou(...) > threshold_iou" with threshold_iou = 0.5
IouOverThreshold(o) == 2 * o.num > o.den

\* ------------------------------------------------------------------ nms
\* A label line is the sequence of its characters; LF is the line feed.
LF == "LF"
Person == <<"p", "e", "r", "s", "o", "n">>
\* label[:-1]
StripLast(label) == SubSeq(label, 1, Len(label) - 1)
\* detected_label[class_id] (class ids count from 0)
LabelOf(detected_label, class_id) == detected_label[class_id + 1]

\* mutants of the sort order: descending, and one that reverses ties
ProbBeforeDescending(a, b) == a.prob > b.prob
ProbBeforeOrEqual(a, b) == a.prob <= b.prob
\* the sort key of line 293: a goes before b when its prob is smaller
ProbBefore(a, b) == a.prob < b.prob

RECURSIVE InsertByProb(_, _)
\* e put behind every element that does not come after it (sorted is stable)
InsertByProb(s, e) ==
    IF s = <<>> THEN <<e>>
    ELSE IF ProbBefore(e, Head(s)) THEN <<e>> \o s
    ELSE <<Head(s)>> \o InsertByProb(Tail(s), e)

RECURSIVE SortedByProb(_)
SortedByProb(detected) ==
    IF detected = <<>> THEN <<>>
    ELSE InsertByProb(SortedByProb(SubSeq(detected, 1, Len(detected) - 1)),
                      detected[Len(detected)])

\* the inner loop of lines 300-302, st = [raised, del]
RECURSIVE NmsInner(_, _, _, _)
NmsInner(d, i, j, st) ==
    IF j > Len(d) THEN st
    ELSE LET o == iou(d[i], d[j])
         IN IF o.raised THEN [st EXCEPT !.raised = TRUE]
            ELSE NmsInner(d, i, j + 1,
                          [st EXCEPT !.del[j] = @ \/ IouOverThreshold(o)])

\* whether candidate i suppresses at all: "if not _del[i]"
NmsActive(del, i) == ~del[i]

\* the outer loop of lines 298-302
RECURSIVE NmsOuter(_, _, _)
NmsOuter(d, i, st) ==
    IF i > Len(d) \/ st.raised THEN st
    ELSE IF NmsActive(st.del, i) THEN NmsOuter(d, i + 1, NmsInner(d, i, i + 1, st))
    ELSE NmsOuter(d, i + 1, st)

\* lines 293-302 on the sorted list: the _del flags, or the error iou raised
NmsSuppress(d) ==
    NmsOuter(d, 1, [raised |-> FALSE, del |-> [k \in 1..Len(d) |-> FALSE]])

\* line 308: a survivor is appended unless its label is 'person'
NmsKeeps(obj, detected_label) ==
    StripLast(LabelOf(detected_label, obj.class_id)) # Person

RECURSIVE NmsKept(_, _, _, _)
\* the elements lines 306-309 append, in order, from index i on
NmsKept(d, del, detected_label, i) ==
    IF i > Len(d) THEN <<>>
    ELSE (IF ~del[i] /\ NmsKeeps(d[i], detected_label) THEN <<d[i]>> ELSE <<>>)
         \o NmsKept(d, del, detected_label, i + 1)

\* mutant: the list is not cleared
NmsClearNothing(detected_result) == detected_result
\* detected_result.clear()
NmsClear(detected_result) == <<>>

\* nms as a whole: the list detected_result holds afterwards, and whether
\* iou's error left the function before line 304
nms(detected, detected_result, detected_label) ==
    LET d == SortedByProb(detected)
        st == NmsSuppress(d)
    IN IF st.raised
       THEN [raised |-> TRUE, detected_result |-> detected_result]
       ELSE [raised |-> FALSE,
             detected_result |-> NmsClear(detected_result)
                                   \o NmsKept(d, st.del, detected_label, 1)]

\* ------------------------------------------------- get_detected_objects
\* A raw score (a float32) is units + tiny * 2^-70: a whole number, or a
\* value next to zero that is far below the rounding step 2^-53 of a double.
Raw(units, tiny) == [units |-> units, tiny |-> tiny]
\* raw >= 0
RawNonNegative(raw) == raw.units > 0 \/ (raw.units = 0 /\ raw.tiny >= 0)

\* 1.0 / (1.0 + math.exp(-raw)) in per mille, for the raw scores the model
\* feeds in.  For |raw| <= 2^-70, math.exp(-raw) is the double 1.0, whatever
\* the sign of raw, and the score is exactly 0.5.
Sigmoid(raw) ==
    CASE raw.units = -2 -> 119
      [] raw.units = -1 -> 269
      [] raw.units = 0 -> 500
      [] raw.units = 1 -> 731
      [] raw.units = 2 -> 881
      [] raw.units = 3 -> 953

\* mutant: the threshold itself is skipped too
BelowOrAtScoreThreshold(score) == score <= 500
\* "score < threshold_score" with threshold_score = 0.5: the pair is skipped
BelowScoreThreshold(score) == score < 500

RECURSIVE AnchorCandidates(_, _, _)
\* the loop over c of lines 340-360 for one anchor, from class c on
AnchorCandidates(anchor, c, label_size) ==
    IF c >= label_size THEN <<>>
    ELSE LET score == Sigmoid(anchor.scores[c + 1])
         IN (IF BelowScoreThreshold(score) THEN <<>>
             ELSE <<Det(c, anchor.x, anchor.y, anchor.width, anchor.height, score)>>)
            \o AnchorCandidates(anchor, c + 1, label_size)

RECURSIVE Candidates(_, _, _)
\* the loop over d of lines 324-360: a frame is the sequence of its anchors,
\* each with its decoded box and its raw scores
Candidates(frame, d, label_size) ==
    IF d > Len(frame) THEN <<>>
    ELSE AnchorCandidates(frame[d], 1, label_size)
         \o Candidates(frame, d + 1, label_size)

get_detected_objects(frame, label_size, detected_result, detected_label) ==
    nms(Candidates(frame, 1, label_size), detected_result, detected_label)

\* ---------------------------------------------------------- face_drawer
\* v * self.VIDEO_WIDTH // self.MODEL_WIDTH (floor division)
ScaleX(v) == (v * VIDEO_WIDTH) \div MODEL_WIDTH
ScaleY(v) == (v * VIDEO_HEIGHT) \div MODEL_HEIGHT
\* lines 391-394 and 455-458: the box in video coordinates
Scaled(obj) == Box(ScaleX(obj.x), ScaleY(obj.y), ScaleX(obj.width), ScaleY(obj.height))
\* lines 377-379
FaceSize(obj) == ScaleX(obj.width) * ScaleY(obj.height)

RECURSIVE SeqMax(_)
SeqMax(s) == IF Len(s) = 1 THEN s[1] ELSE Max(s[1], SeqMax(Tail(s)))
\* mutant: the last position of the maximum instead of the first
TargetIndexLast(face_sizes) ==
    (CHOOSE k \in 1..Len(face_sizes) :
        /\ face_sizes[k] = SeqMax(face_sizes)
        /\ \A m \in (k + 1)..Len(face_sizes) : face_sizes[m] # SeqMax(face_sizes)) - 1
\* face_sizes.index(max(face_sizes)), counted from 0
TargetIndex(face_sizes) ==
    (CHOOSE k \in 1..Len(face_sizes) :
        /\ face_sizes[k] = SeqMax(face_sizes)
        /\ \A m \in 1..(k - 1) : face_sizes[m] # SeqMax(face_sizes)) - 1

\* lines 397-400, b the scaled box
ErrorPan(b) == (b.x + b.width \div 2) - VIDEO_WIDTH \div 2
ErrorTilt(b) == (b.y + b.height \div 2) - VIDEO_HEIGHT \div 2

\* mutant: the deadband test with >= for >
OutsideDeadbandInclusive(error) == Abs(error) >= DEADBAND
\* "abs(error) > 5"
OutsideDeadband(error) == Abs(error) > DEADBAND
\* mutant: a deadband of 10 pixels for 5
StepWideDeadband(angle, error) == IF Abs(error) > 10 THEN angle - error ELSE angle
\* mutant: a gain of 2/180 for 1/180
StepDoubleGain(angle, error) ==
    IF OutsideDeadband(error) THEN angle - 2 * error ELSE angle
\* lines 402-406: angle - error / 180, in units of 1/GAIN degree
Step(angle, error) == IF OutsideDeadband(error) THEN angle - error ELSE angle
\* mutant: the upper clamp left out
ClampLowerOnly(v, hi) == IF v < 0 THEN 0 ELSE v
\* lines 408-418: "if v > hi: v = hi" then "if v < 0: v = 0"
Clamp(v, hi) ==
    LET a == IF v > hi * GAIN THEN hi * GAIN ELSE v
    IN IF a < 0 THEN 0 ELSE a
PanUpdate(p, errorPan) == Clamp(Step(p, errorPan), PAN_MAX)
TiltUpdate(t, errorTilt) == Clamp(Step(t, errorTilt), TILT_MAX)

\* ---------------------------------------------------------- hand_drawer
\* line 462 for one face box f = (fx, fy, f_width, f_height) and the hand's
\* scaled x, y
NearFace(x, y, f) ==
    /\ f.x - MARGIN < x + f.width \div 2
    /\ x + f.width \div 2 < f.x + f.width + MARGIN
    /\ f.y - MARGIN < y + f.height \div 2
    /\ y + f.height \div 2 < f.y + f.height + MARGIN
\* lines 460-464: the flag of one hand against the face boxes of the cycle
HandFlag(obj, face_info) ==
    \E k \in 1..Len(face_info) : NearFace(ScaleX(obj.x), ScaleY(obj.y), face_info[k])

\* ---------------------------------------------------------------- state
VARIABLES
    running,            \* self.running
    loop,               \* self.loop: "None", "run" (loop.run()) or "quit"
    video_caps,         \* self.video_caps: "None" or "caps"
    detected_faces,     \* self.detected_faces, the list object both sides share
    detected_hands,     \* self.detected_hands
    ppc,                \* per model: where its detector callback is
    pend,               \* per model: the survivors nms has still to append
    complete,           \* per model: the result of its last finished nms
    cpc,                \* where draw_overlay_cb is
    idx,                \* the index of the running for loop (from 0)
    face_sizes,         \* face_drawer's face_sizes
    target_image_idx,   \* face_drawer's target_image_idx, "unbound" before line 386
    res,                \* face_drawer's res, hand_drawer's face_info
    flags,              \* the flag of each hand drawn in the cycle
    cycle,              \* what the running (or last) draw cycle did
    pan,                \* self.pan in units of 1/GAIN degree
    tilt,               \* self.tilt in units of 1/GAIN degree
    servo,              \* <<kit.servo[0].angle, kit.servo[1].angle>>, same units
    call,               \* the arguments of a function under test
    ret                 \* its result

progVars == <<running, loop, video_caps, detected_faces, detected_hands, ppc, pend,
              complete, cpc, idx, face_sizes, target_image_idx, res, flags, cycle>>
servoVars == <<pan, tilt, servo>>
vars == <<progVars, servoVars, call, ret>>

Models == {"face", "hand"}
\* target_image_idx before line 386 binds it
Unbound == -1
\* cycle: status ("none", "drawing", "returned", or the error that ended the
\* cycle), faces = len(detected) at line 374, cmds = the times both servos
\* were commanded, pan0/tilt0 = the angles at the start, torn = a read saw a
\* list that is no finished result, seen = the entries the loop of lines
\* 376-383 read, tracked = the entry lines 397-421 tracked (both while the
\* callback is running)
NoCycle == [status |-> "none", faces |-> 0, cmds |-> 0, pan0 |-> PAN_INIT * GAIN,
            tilt0 |-> TILT_INIT * GAIN, torn |-> FALSE, seen |-> <<>>,
            tracked |-> <<>>]
NoCall == [fn |-> "none"]
NoRet == [fn |-> "none"]

\* __init__, lines 59-92
ProgInit ==
    /\ running = FALSE
    /\ loop = "None"
    /\ video_caps = "None"
    /\ detected_faces = <<>>
    /\ detected_hands = <<>>
    /\ ppc = [m \in Models |-> "idle"]
    /\ pend = [m \in Models |-> <<>>]
    /\ complete = [m \in Models |-> <<>>]
    /\ cpc = "idle"
    /\ idx = 0
    /\ face_sizes = <<>>
    /\ target_image_idx = Unbound
    /\ res = <<>>
    /\ flags = <<>>
    /\ cycle = NoCycle
ServoInit ==
    /\ pan = PAN_INIT * GAIN
    /\ tilt = TILT_INIT * GAIN
    /\ servo = <<PAN_INIT * GAIN, TILT_INIT * GAIN>>

\* all sequences over S of length at most n
RECURSIVE SeqsUpTo(_, _)
SeqsUpTo(S, n) ==
    IF n = 0 THEN {<<>>}
    ELSE LET shorter == SeqsUpTo(S, n - 1)
         IN shorter \cup {Append(q, e) : q \in shorter, e \in S}

\* lines 397-421 for the target obj: the update of pan and tilt, the clamps
\* and the two servo commands
Track(obj) ==
    LET b == Scaled(obj)
    IN /\ pan' = PanUpdate(pan, ErrorPan(b))
       /\ tilt' = TiltUpdate(tilt, ErrorTilt(b))
       /\ servo' = <<pan', tilt'>>

\* ------------------------------------------------- iou as a pure function
IouXs == {0, 1, 4}
IouYs == {0, 2}
IouWidths == {1, 2, 3, 10, 100}
IouHeights == {1, 3, 10}
IouBoxes == {Box(x, y, w, h) : x \in IouXs, y \in IouYs, w \in IouWidths, h \in IouHeights}

InitIou ==
    /\ ProgInit /\ ServoInit
    /\ call \in {[fn |-> "iou", A |-> a, B |-> b] : a \in IouBoxes, b \in IouBoxes}
    /\ ret = NoRet
IouCall ==
    /\ call.fn = "iou" /\ ret.fn = "none"
    /\ ret' = [fn |-> "iou", o |-> iou(call.A, call.B)]
    /\ UNCHANGED <<progVars, servoVars, call>>
NextIou == IouCall
SpecIou == InitIou /\ [][NextIou]_vars

\* C7: for every pair of boxes the value iou returns lies in [0, 1], and
\* iou(A, A) = 1 for every box A of positive area.
C7_IouWithinUnitInterval ==
    (ret.fn = "iou" /\ ~ret.o.raised) =>
        /\ 0 <= ret.o.num
        /\ ret.o.num <= ret.o.den
        /\ (call.A = call.B /\ call.A.width * call.A.height > 0
               => ret.o.num = ret.o.den)

\* C8: whenever the union term areaA + areaB - inter is zero or negative, and
\* whenever the two boxes are disjoint (no overlap rectangle), iou returns
\* the value 0 and raises nothing.
C8_DegenerateIouIsZero ==
    (/\ ret.fn = "iou"
     /\ \/ IouUnion(call.A, call.B) <= 0
        \/ IouInter(call.A, call.B) = 0)
    => (~ret.o.raised /\ ret.o.num = 0)

\* ------------------------------------------------- nms as a pure function
\* the longest candidate list nms is run on
MaxCand == 3

LineUnknown == <<"?", "?", "?", LF>>
LineFace == <<"f", "a", "c", "e", LF>>
LineHand == <<"h", "a", "n", "d", LF>>
LinePerson == <<"p", "e", "r", "s", "o", "n", LF>>

\* the last line of a label file that does not end in a line feed
LinePersonAtEof == <<"p", "e", "r", "s", "o", "n">>

NmsLabelTables == {<<LineUnknown, LineFace, LinePerson>>,
                   <<LineUnknown, LineFace, LineHand>>,
                   <<LineUnknown, LineFace, LinePersonAtEof>>}
\* three mutually overlapping boxes with the scores 0.9, 0.3, 0.95, a far box
\* that ties with the second, a box whose iou with itself divides by zero,
\* and an overlapping box of class 2 that ties with the first
NmsCands == {Det(1, 0, 0, 10, 10, 900), Det(1, 1, 0, 10, 10, 300),
             Det(1, 0, 1, 10, 10, 950), Det(2, 100, 100, 10, 10, 300),
             Det(1, 0, 0, 2, 3, 500), Det(2, 1, 1, 10, 10, 900)}
\* what detected_result holds when nms is entered
NmsStale == {<<>>, <<Det(1, 50, 50, 10, 10, 600)>>}

InitNms ==
    /\ ProgInit /\ ServoInit
    /\ call \in {[fn |-> "nms", detected |-> d, detected_result |-> r,
                  detected_label |-> t] :
                    d \in SeqsUpTo(NmsCands, MaxCand), r \in NmsStale,
                    t \in NmsLabelTables}
    /\ ret = NoRet
\* nms(detected, detected_result, detected_label); sorted and del are its
\* locals detected (after line 293) and _del
NmsCall ==
    /\ call.fn = "nms" /\ ret.fn = "none"
    /\ LET d == SortedByProb(call.detected)
           r == nms(call.detected, call.detected_result, call.detected_label)
       IN ret' = [fn |-> "nms", raised |-> r.raised,
                  detected_result |-> r.detected_result,
                  sorted |-> d, del |-> NmsSuppress(d).del]
    /\ UNCHANGED <<progVars, servoVars, call>>
\* nms again, on the list the first call left in detected_result
NmsAgain ==
    /\ ret.fn = "nms" /\ ~ret.raised
    /\ LET r == nms(ret.detected_result, ret.detected_result, call.detected_label)
       IN ret' = [fn |-> "nms2", raised |-> r.raised, first |-> ret.detected_result,
                  detected_result |-> r.detected_result]
    /\ UNCHANGED <<progVars, servoVars, call>>
NextNms == NmsCall \/ NmsAgain
SpecNms == InitNms /\ [][NextNms]_vars

Perms(n) == {f \in [1..n -> 1..n] : \A i, j \in 1..n : i # j => f[i] # f[j]}
Over(a, b) == LET o == iou(a, b) IN ~o.raised /\ IouOverThreshold(o)
AllPairsOver(d) == \A i, j \in 1..Len(d) : i # j => Over(d[i], d[j])
\* the first position of the smallest prob in d
FirstMinProb(d) ==
    CHOOSE k \in 1..Len(d) :
        /\ \A m \in 1..Len(d) : d[k].prob <= d[m].prob
        /\ \A m \in 1..(k - 1) : d[m].prob > d[k].prob

\* C9: nms works on the candidates in ascending order of prob, ties in their
\* original order; when it returns, j is suppressed exactly when an earlier,
\* not suppressed i has IoU(i, j) > 0.5; so of candidates whose pairwise IoU
\* all exceed 0.5 only the one of lowest prob (the first of them) survives.
C9_AscendingGreedySuppression ==
    ret.fn = "nms" =>
        LET d == ret.sorted
            n == Len(d)
        IN /\ n = Len(call.detected)
           /\ \E f \in Perms(n) :
                 /\ \A k \in 1..n : d[k] = call.detected[f[k]]
                 /\ \A i, j \in 1..n : i < j =>
                       /\ d[i].prob <= d[j].prob
                       /\ d[i].prob = d[j].prob => f[i] < f[j]
           /\ ~ret.raised =>
                 \A j \in 1..n :
                    ret.del[j] <=> \E i \in 1..(j - 1) : ~ret.del[i] /\ Over(d[i], d[j])
           /\ (~ret.raised /\ n >= 1 /\ AllPairsOver(call.detected)) =>
                 /\ {k \in 1..n : ~ret.del[k]} = {1}
                 /\ d[1] = call.detected[FirstMinProb(call.detected)]

\* the spec's example: scores 0.9, 0.3, 0.95, all overlapping; the 0.3 box is
\* the one survivor
C9_Witness ==
    /\ ret.fn = "nms" /\ ~ret.raised
    /\ call.detected = <<Det(1, 0, 0, 10, 10, 900), Det(1, 1, 0, 10, 10, 300),
                         Det(1, 0, 1, 10, 10, 950)>>
    /\ AllPairsOver(call.detected)
    /\ ret.del = <<FALSE, TRUE, TRUE>>
    /\ ret.sorted[1].prob = 300

\* C10: nms run on the list nms produced, with the same label table, leaves
\* the identical list: same elements, same order.
C10_NmsIdempotent ==
    ret.fn = "nms2" => (~ret.raised /\ ret.detected_result = ret.first)

\* a second run on a result of two survivors with equal prob, where the first
\* run suppressed or dropped a candidate
C10_Witness ==
    /\ ret.fn = "nms2"
    /\ Len(ret.first) = 2
    /\ ret.first[1].prob = ret.first[2].prob
    /\ Len(call.detected) > Len(ret.first)

\* a label line without its trailing line feed, if it has one
TrimNewline(label) ==
    IF Len(label) > 0 /\ label[Len(label)] = LF THEN StripLast(label) ELSE label

\* C13: when nms returns, the published list holds, in their order, exactly
\* the candidates that were not suppressed and whose label (the label line
\* without its trailing line feed) is not "person", for every label table,
\* also one whose last line has no line feed; "person" candidates suppress
\* others like any candidate before they are dropped.
C13_PersonSurvivorsDropped ==
    (ret.fn = "nms" /\ ~ret.raised) =>
        LET d == ret.sorted
            keep == {k \in 1..Len(d) :
                        /\ ~ret.del[k]
                        /\ TrimNewline(call.detected_label[d[k].class_id + 1]) # Person}
            r == ret.detected_result
        IN /\ Len(r) = Cardinality(keep)
           /\ \E f \in [1..Len(r) -> keep] :
                 /\ \A i, j \in 1..Len(r) : i < j => f[i] < f[j]
                 /\ \A i \in 1..Len(r) : r[i] = d[f[i]]
           /\ \A j \in 1..Len(d) :
                 ret.del[j] <=> \E i \in 1..(j - 1) : ~ret.del[i] /\ Over(d[i], d[j])

\* ------------------------------------- hand_drawer's flag as a pure function
\* the most face boxes a flag is computed against
MaxProxFaces == 2

ProxFaces == {Det(1, 150, 150, 30, 30, 900), Det(1, 15, 15, 30, 30, 800)}
ProxHandXs == {90, 112, 150, 155, 450}
ProxHandYs == {90, 150, 450}
ProxHandWidths == {30, 150, 285}
ProxHandHeights == {30, 150}
ProxHands == {Det(1, x, y, w, h, 700) : x \in ProxHandXs, y \in ProxHandYs,
                                        w \in ProxHandWidths, h \in ProxHandHeights}
\* res of face_drawer for a face list of at most MAX_OBJECT_DETECTION entries
FaceInfoOf(faces) == [k \in 1..Len(faces) |-> Scaled(faces[k])]

InitProx ==
    /\ ProgInit /\ ServoInit
    /\ call \in {[fn |-> "hand_drawer", obj |-> o, face_info |-> FaceInfoOf(f)] :
                    o \in ProxHands, f \in SeqsUpTo(ProxFaces, MaxProxFaces)}
    /\ ret = NoRet
\* lines 455-464 for one hand obj
HandFlagCall ==
    /\ call.fn = "hand_drawer" /\ ret.fn = "none"
    /\ ret' = [fn |-> "hand_drawer", flag |-> HandFlag(call.obj, call.face_info)]
    /\ UNCHANGED <<progVars, servoVars, call>>
NextProx == HandFlagCall
SpecProx == InitProx /\ [][NextProx]_vars

\* twice the centre of the hand's scaled box
HandCentre2(obj) ==
    [x |-> 2 * ScaleX(obj.x) + ScaleX(obj.width),
     y |-> 2 * ScaleY(obj.y) + ScaleY(obj.height)]
\* the hand's own centre lies in the closed rectangle of f inflated by MARGIN
CentreInInflated(obj, f) ==
    LET c == HandCentre2(obj)
    IN /\ 2 * (f.x - MARGIN) <= c.x /\ c.x <= 2 * (f.x + f.width + MARGIN)
       /\ 2 * (f.y - MARGIN) <= c.y /\ c.y <= 2 * (f.y + f.height + MARGIN)
\* the hand's centre is the centre of f
CentredOn(obj, f) ==
    LET c == HandCentre2(obj)
    IN c.x = 2 * f.x + f.width /\ c.y = 2 * f.y + f.height
\* the hand's centre is 200 px or more outside the inflated rectangle of f
FarOutside(obj, f) ==
    LET c == HandCentre2(obj)
    IN \/ c.x <= 2 * (f.x - MARGIN - 200)
       \/ c.x >= 2 * (f.x + f.width + MARGIN + 200)
       \/ c.y <= 2 * (f.y - MARGIN - 200)
       \/ c.y >= 2 * (f.y + f.height + MARGIN + 200)

\* C5: the caution flag of a hand is true exactly when the hand's own centre
\* (x + width/2, y + height/2) lies in the closed inflated rectangle of at
\* least one face box.
C5_FlagIffOwnCentreInside ==
    ret.fn = "hand_drawer" =>
        (ret.flag <=> \E k \in 1..Len(call.face_info) :
                          CentreInInflated(call.obj, call.face_info[k]))

\* C6: a hand centred on the centre of some face box is flagged, whatever its
\* size, and a hand whose centre is 200 px outside the inflated rectangle of
\* every face box is not flagged.
C6_CentredFlaggedFarNotFlagged ==
    ret.fn = "hand_drawer" =>
        /\ (\E k \in 1..Len(call.face_info) : CentredOn(call.obj, call.face_info[k]))
              => ret.flag
        /\ (\A k \in 1..Len(call.face_info) : FarOutside(call.obj, call.face_info[k]))
              => ~ret.flag

\* ------------------------------------- the tracking update, cycle after cycle
\* the number of tracking updates in a run
MaxTrack == 4

\* targets whose centre is off the frame centre by (5, 5), (6, 6), (-5, -5),
\* (-6, -6), (6, -6) pixels, and two far off it, by (8100, 8100) and
\* (-8100, -8100)
TrackFaces == {Det(1, 142, 143, 22, 22, 900), Det(1, 143, 144, 20, 20, 900),
               Det(1, 138, 137, 20, 20, 900), Det(1, 137, 136, 21, 22, 900),
               Det(1, 143, 136, 20, 22, 900),
               Det(1, 3937, 5203, 21, 20, 900), Det(1, -3657, -4922, 21, 20, 900)}

InitTrack ==
    /\ ProgInit /\ ServoInit
    /\ call = [fn |-> "track", n |-> 0]
    /\ ret = NoRet
\* one draw cycle whose target is obj: lines 391-421
TrackCall(obj) ==
    /\ call.fn = "track" /\ call.n < MaxTrack
    /\ Track(obj)
    /\ call' = [call EXCEPT !.n = @ + 1]
    /\ ret' = [fn |-> "track", errorPan |-> ErrorPan(Scaled(obj)),
               errorTilt |-> ErrorTilt(Scaled(obj)), pan0 |-> pan, tilt0 |-> tilt]
    /\ UNCHANGED progVars
NextTrack == \E obj \in TrackFaces : TrackCall(obj)
SpecTrack == InitTrack /\ [][NextTrack]_vars

\* C4 as stated: an error of absolute value 5 leaves the axis' angle as it
\* was, and an error of absolute value 6 changes it, at every reachable angle.
C4_DeadbandAsStated ==
    ret.fn = "track" =>
        /\ Abs(ret.errorPan) = 5 => pan = ret.pan0
        /\ Abs(ret.errorTilt) = 5 => tilt = ret.tilt0
        /\ Abs(ret.errorPan) = 6 => pan # ret.pan0
        /\ Abs(ret.errorTilt) = 6 => tilt # ret.tilt0

\* the axis is at the bound the error pushes it against
Saturated(angle0, error, hi) ==
    \/ angle0 = 0 /\ error > 0
    \/ angle0 = hi * GAIN /\ error < 0

\* C4 (amended): an error of absolute value 5 leaves the axis' angle as it
\* was; an error of absolute value 6 changes it unless the axis already is at
\* the bound the update pushes it against (0 for a positive error, 180 for
\* pan or 135 for tilt for a negative one), where the clamp undoes the step.
C4_DeadbandUnlessSaturated ==
    ret.fn = "track" =>
        /\ Abs(ret.errorPan) = 5 => pan = ret.pan0
        /\ Abs(ret.errorTilt) = 5 => tilt = ret.tilt0
        /\ Abs(ret.errorPan) = 6 =>
              (pan = ret.pan0 <=> Saturated(ret.pan0, ret.errorPan, PAN_MAX))
        /\ Abs(ret.errorTilt) = 6 =>
              (tilt = ret.tilt0 <=> Saturated(ret.tilt0, ret.errorTilt, TILT_MAX))

\* an error of 6 on a saturated axis after an error of 5 and of 6 were seen
\* to act off the bounds: here pan is 0 and stays 0 under errorPan = 6 while
\* tilt, off its bound, moves
C4_Witness ==
    /\ ret.fn = "track"
    /\ ret.errorPan = 6 /\ ret.pan0 = 0 /\ pan = 0
    /\ ret.errorTilt = -6 /\ tilt = ret.tilt0 + 6

\* C17: in every cycle with a target the new pan is the old pan when
\* |errorPan| <= 5 and otherwise old pan - errorPan / 180 limited to [0, 180]
\* (tilt likewise with errorTilt and [0, 135]): a function of the current
\* angle and error only.  So an axis on a bound, however many cycles
\* saturated it, leaves the bound by exactly error / 180 with the first
\* opposite error beyond the deadband.
C17_MemorylessSaturatedLaw ==
    ret.fn = "track" =>
        LET law(angle0, error, hi) ==
                IF error > 5 \/ error < -5
                THEN Max(0, Min(hi * 180, angle0 - error))
                ELSE angle0
            leaves(angle0, angle, error, hi) ==
                /\ (angle0 = 0 /\ error < -5 /\ -error <= hi * 180)
                      => angle = -error
                /\ (angle0 = hi * 180 /\ error > 5 /\ error <= hi * 180)
                      => angle = hi * 180 - error
        IN /\ pan = law(ret.pan0, ret.errorPan, 180)
           /\ tilt = law(ret.tilt0, ret.errorTilt, 135)
           /\ servo = <<pan, tilt>>
           /\ leaves(ret.pan0, pan, ret.errorPan, 180)
           /\ leaves(ret.tilt0, tilt, ret.errorTilt, 135)

\* the fourth cycle of a run: both axes, driven to 0 and held there by the
\* cycles before, leave 0 by 6/180 degree under the errors (-6, -6)
C17_Witness ==
    /\ ret.fn = "track" /\ call.n = 4
    /\ ret.pan0 = 0 /\ ret.tilt0 = 0
    /\ ret.errorPan = -6 /\ ret.errorTilt = -6
    /\ pan = 6 /\ tilt = 6

\* ------------------------------------------------------------ the program
\* an anchor of a frame: its decoded box and the raw scores of classes 0, 1
Anchor(x, y, w, h, raw) ==
    [x |-> x, y |-> y, width |-> w, height |-> h,
     scores |-> <<Raw(0, 0), Raw(raw, 0)>>]

\* tflite_face_labels and tflite_hand_labels as tflite_init loaded them
FaceLabels == <<LineUnknown, LineFace>>
HandLabels == <<LineUnknown, LineHand>>

\* Face frames.  The box (142, 140, 22, 20) is centred within the deadband;
\* (3937, 5203, 21, 20) and the larger (-3662, -4926, 31, 28) lie far outside
\* the frame (the decoder does not clip), 8100 pixels off the centre on both
\* axes.  The frames: no candidate, the centred face, the far face, both far
\* faces, two overlapping centred candidates, and two candidates whose iou
\* divides by zero.
FaceFrames ==
    {<<Anchor(142, 140, 22, 20, -1)>>,
     <<Anchor(142, 140, 22, 20, 1)>>,
     <<Anchor(3937, 5203, 21, 20, 1)>>,
     <<Anchor(-3662, -4926, 31, 28, 2), Anchor(3937, 5203, 21, 20, 1)>>,
     <<Anchor(143, 140, 22, 20, 2), Anchor(142, 140, 22, 20, 1)>>,
     <<Anchor(100, 100, 2, 3, 1), Anchor(100, 100, 2, 3, 1)>>}
\* Hand frames: no candidate, or a hand far from the centred face and one
\* next to it
HandFrames ==
    {<<Anchor(140, 140, 30, 30, -1)>>,
     <<Anchor(20, 20, 30, 30, 2), Anchor(140, 140, 30, 30, 1)>>}

Store(m) == IF m = "face" THEN detected_faces ELSE detected_hands
\* mutant: one list object shared by the two models
SetStoreBoth(m, v) == detected_faces' = v /\ detected_hands' = v
SetStore(m, v) ==
    IF m = "face" THEN detected_faces' = v /\ UNCHANGED detected_hands
    ELSE detected_hands' = v /\ UNCHANGED detected_faces
LabelSize(m) == IF m = "face" THEN FACE_LABEL_SIZE ELSE HAND_LABEL_SIZE
Labels(m) == IF m = "face" THEN FaceLabels ELSE HandLabels

consumerVars == <<cpc, idx, face_sizes, target_image_idx, res, flags, cycle>>
producerVars == <<detected_faces, detected_hands, ppc, pend, complete>>
lifeVars == <<running, loop, video_caps>>

\* run_example up to loop.run(), lines 189-220
RunExample ==
    /\ loop = "None"
    /\ loop' = "run"
    /\ running' = TRUE
    /\ UNCHANGED <<video_caps, producerVars, consumerVars, servoVars, call, ret>>

\* on_bus_message with EOS or ERROR, then line 223
OnBusMessageQuit ==
    /\ loop = "run"
    /\ loop' = "quit"
    /\ running' = FALSE
    /\ UNCHANGED <<video_caps, producerVars, consumerVars, servoVars, call, ret>>

\* prepare_overlay_cb
PrepareOverlayCb ==
    /\ loop # "None"
    /\ video_caps' = "caps"
    /\ UNCHANGED <<running, loop, producerVars, consumerVars, servoVars, call, ret>>

\* new_callback_face / new_callback_hand -> callback_handler ->
\* get_detected_objects -> nms up to and including detected_result.clear():
\* everything before the clear works on locals.  An error raised by iou
\* leaves the callback before line 304.
CallbackHandler(m, frame) ==
    /\ ppc[m] = "idle"
    /\ IF ~running
       THEN UNCHANGED producerVars
       ELSE LET d == SortedByProb(Candidates(frame, 1, LabelSize(m)))
                st == NmsSuppress(d)
                kept == NmsKept(d, st.del, Labels(m), 1)
            IN IF st.raised
               THEN UNCHANGED producerVars
               ELSE /\ SetStore(m, NmsClear(Store(m)))
                    /\ pend' = [pend EXCEPT ![m] = kept]
                    /\ ppc' = [ppc EXCEPT ![m] = IF kept = <<>> THEN "idle" ELSE "append"]
                    /\ complete' = [complete EXCEPT
                                      ![m] = IF kept = <<>> THEN <<>> ELSE @]
    /\ UNCHANGED <<lifeVars, consumerVars, servoVars, call, ret>>

\* one detected_result.append of lines 306-309; after the last one the
\* callback returns
NmsAppend(m) ==
    /\ ppc[m] = "append"
    /\ LET v == Append(Store(m), Head(pend[m]))
           rest == Tail(pend[m])
       IN /\ SetStore(m, v)
          /\ pend' = [pend EXCEPT ![m] = rest]
          /\ ppc' = [ppc EXCEPT ![m] = IF rest = <<>> THEN "idle" ELSE "append"]
          /\ complete' = [complete EXCEPT ![m] = IF rest = <<>> THEN v ELSE @]
    /\ UNCHANGED <<lifeVars, consumerVars, servoVars, call, ret>>

\* the list of model m is in the middle of being rewritten: it is neither
\* the result of the last finished nms nor that of the running one
Torn(m) == ppc[m] = "append" /\ Store(m) # complete[m]

\* draw_overlay_cb, lines 497-508, and line 374 of face_drawer.  The two
\* locals alias the shared lists (no copy is made).
DrawOverlayCb ==
    /\ cpc = "idle"
    /\ IF video_caps = "None" \/ ~running
       THEN UNCHANGED consumerVars
       ELSE /\ cpc' = "sizes"
            /\ idx' = 0
            /\ face_sizes' = [k \in 1..Len(detected_faces) |-> 0]
            /\ target_image_idx' = Unbound
            /\ res' = <<>>
            /\ flags' = <<>>
            /\ cycle' = [status |-> "drawing", faces |-> Len(detected_faces),
                         cmds |-> 0, pan0 |-> pan, tilt0 |-> tilt,
                         torn |-> Torn("face"), seen |-> <<>>, tracked |-> <<>>]
    /\ UNCHANGED <<lifeVars, producerVars, servoVars, call, ret>>

\* the callback is left: its locals are gone
Leave(status) ==
    /\ cpc' = "idle"
    /\ idx' = 0
    /\ face_sizes' = <<>>
    /\ target_image_idx' = Unbound
    /\ res' = <<>>
    /\ cycle' = [cycle EXCEPT !.status = status, !.seen = <<>>, !.tracked = <<>>]

\* lines 385-386 after the first loop
LeaveSizes(fs) ==
    /\ face_sizes' = fs
    /\ target_image_idx' = IF Len(fs) # 0 THEN TargetIndex(fs) ELSE target_image_idx
    /\ cpc' = "faces"
    /\ idx' = 0

\* one iteration of the loop of lines 376-383 over the shared face list
FaceSizesStep ==
    /\ cpc = "sizes"
    /\ IF idx >= Len(detected_faces)
       THEN LeaveSizes(face_sizes) /\ UNCHANGED <<res, flags, cycle>>
       ELSE IF idx >= Len(face_sizes)
       THEN Leave("IndexError") /\ UNCHANGED flags
       ELSE LET fs == [face_sizes EXCEPT ![idx + 1] = FaceSize(detected_faces[idx + 1])]
            IN /\ IF idx + 1 >= MAX_OBJECT_DETECTION
                  THEN LeaveSizes(fs)
                  ELSE /\ face_sizes' = fs
                       /\ idx' = idx + 1
                       /\ UNCHANGED <<cpc, target_image_idx>>
               /\ cycle' = [cycle EXCEPT
                     !.torn = @ \/ Torn("face"),
                     !.seen = Append(@, detected_faces[idx + 1])]
               /\ UNCHANGED <<res, flags>>
    /\ UNCHANGED <<lifeVars, producerVars, servoVars, call, ret>>

\* one iteration of the loop of lines 389-444 over the shared face list
FaceDrawStep ==
    /\ cpc = "faces"
    /\ IF idx >= Len(detected_faces)
       THEN /\ cpc' = "hands"
            /\ idx' = 0
            /\ UNCHANGED <<face_sizes, target_image_idx, res, flags, cycle, servoVars>>
       ELSE IF target_image_idx = Unbound
       THEN Leave("NameError") /\ UNCHANGED <<flags, servoVars>>
       ELSE LET obj == detected_faces[idx + 1]
                hit == idx = target_image_idx
            IN /\ IF hit THEN Track(obj) ELSE UNCHANGED servoVars
               /\ cycle' = [cycle EXCEPT
                     !.torn = @ \/ Torn("face"),
                     !.cmds = IF hit THEN @ + 1 ELSE @,
                     !.tracked = IF hit THEN <<obj>> ELSE @]
               /\ res' = Append(res, Scaled(obj))
               /\ IF idx + 1 >= MAX_OBJECT_DETECTION
                  THEN cpc' = "hands" /\ idx' = 0
                  ELSE cpc' = cpc /\ idx' = idx + 1
               /\ UNCHANGED <<face_sizes, target_image_idx, flags>>
    /\ UNCHANGED <<lifeVars, producerVars, call, ret>>

\* one iteration of the loop of lines 452-493 over the shared hand list;
\* when the loop ends hand_drawer and draw_overlay_cb return
HandDrawStep ==
    /\ cpc = "hands"
    /\ IF idx >= Len(detected_hands)
       THEN Leave("returned") /\ UNCHANGED flags
       ELSE LET obj == detected_hands[idx + 1]
            IN /\ flags' = Append(flags, HandFlag(obj, res))
               /\ IF idx + 1 >= MAX_OBJECT_DETECTION + 1
                  THEN Leave("returned")
                  ELSE /\ idx' = idx + 1
                       /\ cycle' = [cycle EXCEPT !.torn = @ \/ Torn("hand")]
                       /\ UNCHANGED <<cpc, face_sizes, target_image_idx, res>>
    /\ UNCHANGED <<lifeVars, producerVars, servoVars, call, ret>>

Init == ProgInit /\ ServoInit /\ call = NoCall /\ ret = NoRet

Next ==
    \/ RunExample
    \/ OnBusMessageQuit
    \/ PrepareOverlayCb
    \/ \E frame \in FaceFrames : CallbackHandler("face", frame)
    \/ \E frame \in HandFrames : CallbackHandler("hand", frame)
    \/ \E m \in Models : NmsAppend(m)
    \/ DrawOverlayCb
    \/ FaceSizesStep
    \/ FaceDrawStep
    \/ HandDrawStep

Spec == Init /\ [][Next]_vars

\* C1: from pan = tilt = 90, after any sequence of draw cycles, with any
\* errors, 0 <= pan <= 180 and 0 <= tilt <= 135, and so is every angle the
\* servos were commanded to (angles in units of 1/GAIN degree).
C1_AnglesWithinRange ==
    /\ 0 <= pan /\ pan <= PAN_MAX * GAIN
    /\ 0 <= tilt /\ tilt <= TILT_MAX * GAIN
    /\ 0 <= servo[1] /\ servo[1] <= PAN_MAX * GAIN
    /\ 0 <= servo[2] /\ servo[2] <= TILT_MAX * GAIN

\* a cycle that started with both axes at their upper bounds has tracked a
\* target 8100 pixels off on both axes: the steps to 225 and 180 degrees were
\* clamped back to 180 and 135, and these were commanded
C1_Witness ==
    /\ cpc = "hands" /\ cycle.cmds = 1
    /\ cycle.pan0 = PAN_MAX * GAIN /\ cycle.tilt0 = TILT_MAX * GAIN
    /\ ErrorPan(res[target_image_idx + 1]) = -8100
    /\ ErrorTilt(res[target_image_idx + 1]) = -8100
    /\ servo = <<PAN_MAX * GAIN, TILT_MAX * GAIN>>
    /\ pan = PAN_MAX * GAIN /\ tilt = TILT_MAX * GAIN

\* C2: every list the draw callback reads in a cycle is the complete result
\* of one finished detection cycle of that model (the previous one or the
\* new one), never a list in the middle of being rewritten.
C2_ReadsOnlyFinishedLists == cycle.status # "none" => ~cycle.torn

\* C3: a draw cycle commands the servos if and only if the face list it was
\* given is not empty: then both axes are set, once, to the cycle's clamped
\* pan and tilt; with an empty list nothing is commanded and pan and tilt
\* stay as they were.
C3_CommandIffFaces ==
    cycle.status \in {"returned", "IndexError", "NameError"} =>
        IF cycle.faces > 0
        THEN cycle.cmds = 1 /\ servo = <<pan, tilt>>
        ELSE cycle.cmds = 0 /\ pan = cycle.pan0 /\ tilt = cycle.tilt0

\* ------------------------------------------- one draw cycle, run to its end
\* face_drawer and hand_drawer as functions of the lists they are given, for a
\* cycle during which no detector callback runs.

RECURSIVE FaceSizesLoop(_, _, _)
\* the loop of lines 376-383 from index idx (from 0) on
FaceSizesLoop(detected, i, fs) ==
    IF i >= Len(detected) THEN fs
    ELSE LET fs2 == [fs EXCEPT ![i + 1] = FaceSize(detected[i + 1])]
         IN IF i + 1 >= MAX_OBJECT_DETECTION THEN fs2
            ELSE FaceSizesLoop(detected, i + 1, fs2)
\* lines 374-383: face_sizes when the first loop is left
FaceSizesOf(detected) == FaceSizesLoop(detected, 0, [k \in 1..Len(detected) |-> 0])

\* the number of entries the loop of lines 389-444 visits ("drawed >= 5")
FaceCap(detected) == Min(Len(detected), MAX_OBJECT_DETECTION)
\* mutant: the hand loop stopped after MAX_OBJECT_DETECTION entries
HandCapFive(detected) == Min(Len(detected), MAX_OBJECT_DETECTION)
\* the number of entries the loop of lines 452-493 visits ("drawed >= 5 + 1")
HandCap(detected) == Min(Len(detected), MAX_OBJECT_DETECTION + 1)

\* face_drawer: its locals when it returns, and whether the second loop met
\* idx == target_image_idx (lines 396-421)
face_drawer(detected) ==
    LET fs == FaceSizesOf(detected)
        t == IF Len(fs) # 0 THEN TargetIndex(fs) ELSE Unbound
    IN [face_sizes |-> fs, target_image_idx |-> t,
        tracked |-> t \in 0..(FaceCap(detected) - 1),
        res |-> FaceInfoOf(SubSeq(detected, 1, FaceCap(detected)))]

\* hand_drawer: the flag of every hand it draws, in order
hand_drawer(detected, face_info) ==
    [k \in 1..HandCap(detected) |-> HandFlag(detected[k], face_info)]

\* the most entries of a face list, and the draw cycles in a run
MaxRenderFaces == 6
MaxDraw == 2

\* a small face 7 px left of and above the centre, a large one on the centre,
\* and one of the same size as the large one, 6 px right of and below it
FaceSmall == Det(1, 137, 136, 20, 20, 900)
FaceLarge == Det(1, 135, 135, 30, 30, 800)
FaceLargeToo == Det(1, 138, 139, 30, 30, 700)
RenderFaces == {FaceSmall, FaceLarge, FaceLargeToo}
HandNear == Det(1, 140, 140, 30, 30, 900)
HandFar == Det(1, 20, 20, 30, 30, 800)
SevenHands == <<HandNear, HandFar, HandFar, HandNear, HandFar, HandNear, HandNear>>
\* the lists the first cycle is given, and the lists of the later cycles
RenderFaceLists(n) ==
    IF n = 0 THEN SeqsUpTo(RenderFaces, MaxRenderFaces)
    ELSE {<<>>, <<FaceSmall>>}
RenderHandLists(n) ==
    IF n = 0 THEN {<<>>, SubSeq(SevenHands, 1, 5), SubSeq(SevenHands, 1, 6), SevenHands}
    ELSE {<<HandNear>>, <<HandFar, HandNear>>}

InitRender ==
    /\ ProgInit /\ ServoInit
    /\ call = [fn |-> "draw", n |-> 0, faces |-> <<>>, hands |-> <<>>]
    /\ ret = NoRet
\* draw_overlay_cb on the face list faces and the hand list hands, lines
\* 501-509: face_drawer, then hand_drawer with face_drawer's result
DrawCall(faces, hands) ==
    /\ call.fn = "draw" /\ call.n < MaxDraw
    /\ LET f == face_drawer(faces)
       IN /\ face_sizes' = f.face_sizes
          /\ target_image_idx' = f.target_image_idx
          /\ res' = f.res
          /\ flags' = hand_drawer(hands, f.res)
          /\ IF f.tracked THEN Track(faces[f.target_image_idx + 1])
             ELSE UNCHANGED servoVars
          /\ ret' = [fn |-> "draw", tracked |-> f.tracked, pan0 |-> pan, tilt0 |-> tilt]
    /\ call' = [fn |-> "draw", n |-> call.n + 1, faces |-> faces, hands |-> hands]
    /\ UNCHANGED <<lifeVars, producerVars, cpc, idx, cycle>>
NextRender ==
    \E faces \in RenderFaceLists(call.n), hands \in RenderHandLists(call.n) :
        DrawCall(faces, hands)
SpecRender == InitRender /\ [][NextRender]_vars

\* C11: for every non-empty face list a target is tracked; it lies among the
\* first MAX_OBJECT_DETECTION entries, has the largest scaled area of these
\* entries, and is the first of them with that area; pan and tilt are updated
\* with the errors of this entry.
C11_TargetIsFirstLargestOfFirstFive ==
    (ret.fn = "draw" /\ Len(call.faces) > 0) =>
        LET n == Min(Len(call.faces), 5)
            t == target_image_idx + 1
            area(k) == ((call.faces[k].width * 640) \div 300)
                         * ((call.faces[k].height * 480) \div 300)
        IN /\ ret.tracked
           /\ t \in 1..n
           /\ \A k \in 1..n : area(k) <= area(t)
           /\ \A k \in 1..(t - 1) : area(k) < area(t)
           /\ pan = PanUpdate(ret.pan0, ErrorPan(Scaled(call.faces[t])))
           /\ tilt = TiltUpdate(ret.tilt0, ErrorTilt(Scaled(call.faces[t])))
           /\ servo = <<pan, tilt>>

\* six faces, the sixth larger than each of the first five: the first entry
\* is the target and the cycle moved pan and tilt by its errors (-7, -7)
C11_Witness ==
    /\ ret.fn = "draw"
    /\ call.faces = <<FaceSmall, FaceSmall, FaceSmall, FaceSmall, FaceSmall, FaceLarge>>
    /\ target_image_idx = 0
    /\ pan = ret.pan0 + 7 /\ tilt = ret.tilt0 + 7

\* C19: in every draw cycle the face boxes the hand stage works with are the
\* scaled boxes of the first min(5, n) entries of the cycle's face list, in
\* order, all of them; the hands evaluated are the first min(6, m) entries of
\* the hand list; the flags are those against this cycle's face boxes, never
\* against a box of an earlier cycle.
C19_FaceStageFeedsHandStage ==
    ret.fn = "draw" =>
        LET n == Min(Len(call.faces), 5)
            m == Min(Len(call.hands), 6)
        IN /\ Len(res) = n
           /\ \A k \in 1..n : res[k] = Scaled(call.faces[k])
           /\ Len(flags) = m
           /\ \A k \in 1..m :
                 flags[k] <=> \E j \in 1..n :
                                 NearFace(ScaleX(call.hands[k].x), ScaleY(call.hands[k].y),
                                          Scaled(call.faces[j]))

\* a second cycle on an empty face list after a first one with six faces and
\* seven hands: the hand next to the earlier faces is not flagged
C19_Witness ==
    /\ ret.fn = "draw" /\ call.n = 2
    /\ call.faces = <<>> /\ call.hands = <<HandFar, HandNear>>
    /\ res = <<>> /\ flags = <<FALSE, FALSE>>
    /\ pan # PAN_INIT * GAIN

\* --------------------------- get_detected_objects on the tensors of a frame
Y_SCALE == 10
X_SCALE == 10
H_SCALE == 5
W_SCALE == 5
\* math.exp(v) in per mille, for the arguments the model feeds in
Exp(v) ==
    CASE v = -1 -> 368
      [] v = 0 -> 1000
      [] v = 1 -> 2718

\* Units.  Priors are normalised coordinates in 1/1000; centres and sizes are
\* in 1/1000000 (the exact product of a prior and an Exp value); a decoded
\* box is in micro pixels.  The inputs are chosen so that every quotient below
\* is exact.
\* lines 325-326: delta / scale * size + pos
DecodeCentre(delta, scale, size, pos) == (delta * size * 1000) \div scale + pos * 1000
\* mutant: a linear size, 1 + delta / scale, for the exponential one
DecodeSizeLinear(delta, scale, size) == (1000 + (1000 * delta) \div scale) * size
\* lines 327-328: exp(delta / scale) * size
DecodeSize(delta, scale, size) == Exp(delta \div scale) * size

\* lines 325-338 for anchor d (from 1): b = boxes[d], priors the prior table
DecodeBox(b, priors, d) ==
    LET ycenter == DecodeCentre(b[1], Y_SCALE, priors[3][d], priors[1][d])
        xcenter == DecodeCentre(b[2], X_SCALE, priors[4][d], priors[2][d])
        h == DecodeSize(b[3], H_SCALE, priors[3][d])
        w == DecodeSize(b[4], W_SCALE, priors[4][d])
        ymin == ycenter - h \div 2
        xmin == xcenter - w \div 2
        ymax == ycenter + h \div 2
        xmax == xcenter + w \div 2
    IN Box(xmin * MODEL_WIDTH, ymin * MODEL_HEIGHT,
           (xmax - xmin) * MODEL_WIDTH, (ymax - ymin) * MODEL_HEIGHT)

\* the anchors of a frame: the decoded box and the raw scores of each
DecodedFrame(boxes, detections, priors) ==
    [d \in 1..Len(boxes) |->
        LET b == DecodeBox(boxes[d], priors, d)
        IN [x |-> b.x, y |-> b.y, width |-> b.width, height |-> b.height,
            scores |-> detections[d]]]

\* tflite_box_priors: the rows y, x, h, w of two anchors
DecodePriors == <<<<500, 300>>, <<500, 700>>, <<200, 400>>, <<100, 200>>>>
\* rows dy, dx, dh, dw of the box tensor
DecodeDeltas == {<<0, 0, 0, 0>>, <<10, -10, 5, -5>>, <<-5, 5, -5, 5>>, <<5, 10, 0, 5>>}
\* rows of the score tensor: the raw scores of the classes 0, 1, 2
ScoreRows == {<<Raw(3, 0), Raw(-1, 0), Raw(2, 0)>>,
              <<Raw(3, 0), Raw(0, 0), Raw(-1, 0)>>,
              <<Raw(3, 0), Raw(0, -1), Raw(1, 0)>>,
              <<Raw(3, 0), Raw(0, 1), Raw(0, -1)>>,
              <<Raw(-1, 0), Raw(1, 0), Raw(0, 0)>>}
DecodeLabelSizes == {1, 2, 3}

InitDecode ==
    /\ ProgInit /\ ServoInit
    /\ call \in {[fn |-> "get_detected_objects", boxes |-> <<b1, b2>>,
                  detections |-> <<SubSeq(r1, 1, n), SubSeq(r2, 1, n)>>,
                  label_size |-> n] :
                    b1 \in DecodeDeltas, b2 \in DecodeDeltas,
                    r1 \in ScoreRows, r2 \in ScoreRows, n \in DecodeLabelSizes}
    /\ ret = NoRet
\* lines 322-360: the decoded anchors and the list detected handed to nms
DecodeCall ==
    /\ call.fn = "get_detected_objects" /\ ret.fn = "none"
    /\ LET frame == DecodedFrame(call.boxes, call.detections, DecodePriors)
       IN ret' = [fn |-> "get_detected_objects", frame |-> frame,
                  detected |-> Candidates(frame, 1, call.label_size)]
    /\ UNCHANGED <<progVars, servoVars, call>>
NextDecode == DecodeCall
SpecDecode == InitDecode /\ [][NextDecode]_vars

\* the list detected holds a candidate of class c with the box of anchor d
Yields(d, c) ==
    \E k \in 1..Len(ret.detected) :
        /\ ret.detected[k].class_id = c
        /\ ret.detected[k].x = ret.frame[d].x
        /\ ret.detected[k].y = ret.frame[d].y
        /\ ret.detected[k].width = ret.frame[d].width
        /\ ret.detected[k].height = ret.frame[d].height
\* the raw score of class c of anchor d, for c < label_size
RawScore(d, c) == call.detections[d][c + 1]
DecodePairs == {<<d, c>> : d \in 1..2, c \in 0..2}

\* C14 as stated: (d, c) yields a candidate exactly when 1 <= c < label_size
\* and the raw score is >= 0; every candidate has class_id >= 1 and
\* prob >= 0.5.
C14_CandidateIffRawNonNegative ==
    ret.fn = "get_detected_objects" =>
        /\ \A p \in DecodePairs :
              Yields(p[1], p[2]) <=>
                 (/\ 1 <= p[2] /\ p[2] < call.label_size
                  /\ RawNonNegative(RawScore(p[1], p[2])))
        /\ \A k \in 1..Len(ret.detected) :
              ret.detected[k].class_id >= 1 /\ ret.detected[k].prob >= 500

\* C14 (amended): (d, c) yields exactly one candidate when 1 <= c < label_size
\* and the computed score is >= 0.5, and none otherwise; every raw score >= 0
\* has such a score, and a negative raw score has it only if it is so close
\* to 0 that the computed score is exactly 0.5; the candidate's prob is the
\* computed score; every candidate has class_id >= 1 and prob >= 0.5.
C14_CandidateIffComputedScoreAtLeastHalf ==
    ret.fn = "get_detected_objects" =>
        LET on == {p \in DecodePairs :
                      /\ 1 <= p[2] /\ p[2] < call.label_size
                      /\ Sigmoid(RawScore(p[1], p[2])) >= 500}
        IN /\ \A p \in DecodePairs : Yields(p[1], p[2]) <=> p \in on
           /\ Len(ret.detected) = Cardinality(on)
           /\ \A p \in on :
                 \E k \in 1..Len(ret.detected) :
                    /\ ret.detected[k].class_id = p[2]
                    /\ ret.detected[k].x = ret.frame[p[1]].x
                    /\ ret.detected[k].prob = Sigmoid(RawScore(p[1], p[2]))
           /\ \A d \in 1..2, c \in 1..(call.label_size - 1) :
                 /\ RawNonNegative(RawScore(d, c)) => <<d, c>> \in on
                 /\ (<<d, c>> \in on /\ ~RawNonNegative(RawScore(d, c)))
                       => (RawScore(d, c).units = 0
                           /\ Sigmoid(RawScore(d, c)) = 500)
           /\ \A k \in 1..Len(ret.detected) :
                 ret.detected[k].class_id >= 1 /\ ret.detected[k].prob >= 500

\* class 1 of the first anchor has a raw score just below 0 and class 2 one
\* of exactly 0: both yield a candidate of prob 0.5; the class 0 scores of 3
\* yield none
C14_Witness ==
    /\ ret.fn = "get_detected_objects" /\ call.label_size = 3
    /\ call.detections[1] = <<Raw(3, 0), Raw(0, -1), Raw(1, 0)>>
    /\ call.detections[2] = <<Raw(3, 0), Raw(0, 0), Raw(-1, 0)>>
    /\ Len(ret.detected) = 3
    /\ ret.detected[1].class_id = 1 /\ ret.detected[1].prob = 500
    /\ ret.detected[3].class_id = 1 /\ ret.detected[3].prob = 500
    /\ ~Yields(1, 0) /\ ~Yields(2, 2)

\* C16: the decoded box of every anchor is the closed form: yc = dy / Y_SCALE
\* * prior.h + prior.y, xc = dx / X_SCALE * prior.w + prior.x, h = exp(dh /
\* H_SCALE) * prior.h, w = exp(dw / W_SCALE) * prior.w, x = (xc - w / 2) *
\* MODEL_WIDTH, y = (yc - h / 2) * MODEL_HEIGHT, width = w * MODEL_WIDTH,
\* height = h * MODEL_HEIGHT.
C16_DecodedBoxIsClosedForm ==
    ret.fn = "get_detected_objects" =>
        \A d \in 1..2 :
            LET dy == call.boxes[d][1]
                dx == call.boxes[d][2]
                dh == call.boxes[d][3]
                dw == call.boxes[d][4]
                prior == [y |-> DecodePriors[1][d], x |-> DecodePriors[2][d],
                          h |-> DecodePriors[3][d], w |-> DecodePriors[4][d]]
                yc == dy * prior.h * 100 + prior.y * 1000
                xc == dx * prior.w * 100 + prior.x * 1000
                h == Exp(dh \div 5) * prior.h
                w == Exp(dw \div 5) * prior.w
            IN /\ 2 * ret.frame[d].x = (2 * xc - w) * 300
               /\ 2 * ret.frame[d].y = (2 * yc - h) * 300
               /\ ret.frame[d].width = w * 300
               /\ ret.frame[d].height = h * 300

\* the second anchor (prior y 0.3, x 0.7, h 0.4, w 0.2) with the deltas
\* (10, -10, 5, -5): yc = 0.7, xc = 0.5, h = 2.718 * 0.4, w = 0.368 * 0.2
C16_Witness ==
    /\ ret.fn = "get_detected_objects"
    /\ call.boxes[2] = <<10, -10, 5, -5>>
    /\ ret.frame[2].height = 326160000
    /\ ret.frame[2].y = 46920000
    /\ ret.frame[2].width = 22080000
    /\ ret.frame[2].x = 138960000

\* a step of the detector callback of model m
ProducerStep(m) ==
    \/ ppc'[m] # ppc[m]
    \/ pend'[m] # pend[m]
    \/ complete'[m] # complete[m]
    \/ Store(m)' # Store(m)

\* C18: a step of the face detection cycle leaves the hand list as it is, a
\* step of the hand detection cycle leaves the face list as it is, under
\* every interleaving; no producer step changes pan or tilt or commands a
\* servo: these change only in a step of the draw callback's tracking pass.
C18_StoresAndTrackerIndependent ==
    [][/\ ProducerStep("face") =>
             (detected_hands' = detected_hands /\ servoVars' = servoVars)
       /\ ProducerStep("hand") =>
             (detected_faces' = detected_faces /\ servoVars' = servoVars)
       /\ servoVars' # servoVars =>
             (cpc = "faces" /\ producerVars' = producerVars)]_vars

\* both detector callbacks are in the middle of publishing, each list holds
\* one entry of its own model, and a draw cycle has moved pan
C18_Witness ==
    /\ ppc["face"] = "append" /\ ppc["hand"] = "append"
    /\ Len(detected_faces) = 1 /\ Len(detected_hands) = 1
    /\ detected_faces[1].width = 21 /\ detected_hands[1].width = 30
    /\ pan # PAN_INIT * GAIN

\* ------------------------------------ the callbacks, one call after another
\* A buffer handed to a detector callback: the number of its memory blocks,
\* whether each map succeeds, the mapped sizes in bytes, and the anchors its
\* tensors decode to.  DETECTION_MAX is the number of anchors of the frame.
Buffer(n, r1, s1, r2, s2, frame) ==
    [n_memory |-> n, result1 |-> r1, size1 |-> s1, result2 |-> r2, size2 |-> s2,
     frame |-> frame]
\* self.BOX_SIZE * self.DETECTION_MAX * 4
BoxesSize(frame) == BOX_SIZE * Len(frame) * 4
\* label_size * self.DETECTION_MAX * 4
DetectionsSize(frame, label_size) == label_size * Len(frame) * 4
GoodBuffer(frame, label_size) ==
    Buffer(2, TRUE, BoxesSize(frame), TRUE, DetectionsSize(frame, label_size), frame)
WellFormed(buffer, label_size) == buffer = GoodBuffer(buffer.frame, label_size)

\* mutant: the callback does not look at self.running
CallbackRunsAlways == TRUE
\* line 235: "if self.running"
CallbackRuns == running

Returned(value, detected_result) ==
    [exc |-> "none", value |-> value, detected_result |-> detected_result]
Raised(exc, detected_result) ==
    [exc |-> exc, value |-> "none", detected_result |-> detected_result]

\* callback_handler, lines 235-276: the exception that leaves it or the value
\* it returns, and what the list detected_result holds afterwards
callback_handler(buffer, label_size, detected_result, detected_label) ==
    IF ~CallbackRuns THEN Returned("None", detected_result)
    ELSE IF buffer.n_memory # 2 THEN Returned("False", detected_result)
    ELSE IF buffer.result1 /\ buffer.size1 # BoxesSize(buffer.frame)
    THEN Raised("AssertionError", detected_result)
    ELSE IF buffer.result2 /\ buffer.size2 # DetectionsSize(buffer.frame, label_size)
    THEN Raised("AssertionError", detected_result)
    ELSE IF ~buffer.result1 \/ ~buffer.result2
    THEN Raised("UnboundLocalError", detected_result)
    ELSE LET r == get_detected_objects(buffer.frame, label_size, detected_result,
                                       detected_label)
         IN IF r.raised THEN Raised("ZeroDivisionError", r.detected_result)
            ELSE Returned("None", r.detected_result)

\* the calls in a run
MaxCalls == 4

\* buffers that break the input contract, for a frame with one candidate
BadBuffers(frame, label_size) ==
    {Buffer(1, TRUE, BoxesSize(frame), TRUE, DetectionsSize(frame, label_size), frame),
     Buffer(2, FALSE, BoxesSize(frame), TRUE, DetectionsSize(frame, label_size), frame),
     Buffer(2, TRUE, BoxesSize(frame), FALSE, DetectionsSize(frame, label_size), frame),
     Buffer(2, TRUE, BoxesSize(frame) - 4, TRUE, DetectionsSize(frame, label_size), frame),
     Buffer(2, TRUE, BoxesSize(frame), TRUE, DetectionsSize(frame, label_size) + 4, frame)}
Buffers(m) ==
    IF m = "face"
    THEN {GoodBuffer(f, FACE_LABEL_SIZE) : f \in FaceFrames}
         \cup BadBuffers(<<Anchor(142, 140, 22, 20, 1)>>, FACE_LABEL_SIZE)
    ELSE {GoodBuffer(f, HAND_LABEL_SIZE) : f \in HandFrames}
         \cup BadBuffers(<<Anchor(140, 140, 30, 30, 1)>>, HAND_LABEL_SIZE)

InitCallbacks ==
    /\ ProgInit /\ ServoInit
    /\ call = [fn |-> "callbacks", n |-> 0]
    /\ ret = NoRet

\* new_callback_face / new_callback_hand with a buffer, run to its end
NewCallback(m, buffer) ==
    /\ call.fn = "callbacks" /\ call.n < MaxCalls
    /\ LET r == callback_handler(buffer, LabelSize(m), Store(m), Labels(m))
       IN /\ SetStore(m, r.detected_result)
          /\ ret' = [fn |-> "new_callback", m |-> m, buffer |-> buffer,
                     running |-> running, exc |-> r.exc, value |-> r.value,
                     faces0 |-> detected_faces, hands0 |-> detected_hands]
    /\ call' = [call EXCEPT !.n = @ + 1]
    /\ UNCHANGED <<lifeVars, ppc, pend, complete, consumerVars, servoVars>>

\* draw_overlay_cb on the two lists as they are, run to its end; cmds is the
\* number of times it commanded the servos
DrawOverlayCbCall ==
    /\ call.fn = "callbacks" /\ call.n < MaxCalls
    /\ LET runs == ~(video_caps = "None" \/ ~running)
           f == face_drawer(detected_faces)
           tracks == runs /\ f.tracked
       IN /\ IF tracks THEN Track(detected_faces[f.target_image_idx + 1])
             ELSE UNCHANGED servoVars
          /\ ret' = [fn |-> "draw_overlay_cb", running |-> running,
                     video_caps |-> video_caps, cmds |-> IF tracks THEN 1 ELSE 0,
                     pan0 |-> pan, tilt0 |-> tilt, servo0 |-> servo]
    /\ call' = [call EXCEPT !.n = @ + 1]
    /\ UNCHANGED <<lifeVars, producerVars, consumerVars>>

NextCallbacks ==
    \/ RunExample
    \/ OnBusMessageQuit
    \/ PrepareOverlayCb
    \/ \E m \in Models : \E buffer \in Buffers(m) : NewCallback(m, buffer)
    \/ DrawOverlayCbCall
SpecCallbacks == InitCallbacks /\ [][NextCallbacks]_vars

\* C12: a detector callback that is given a frame breaking the input
\* contract (a number of memory blocks other than 2, a map that fails, a
\* buffer of the wrong size) returns without an exception and leaves the
\* list of its model as it was.
C12_BadFrameSilentlyDropped ==
    (/\ ret.fn = "new_callback" /\ ret.running
     /\ ~WellFormed(ret.buffer, LabelSize(ret.m)))
    => /\ ret.exc = "none"
       /\ detected_faces = ret.faces0
       /\ detected_hands = ret.hands0

\* C15: after a detection cycle that ran to its end, the list of its model
\* holds exactly the kept survivors of that cycle's frame, whatever the list
\* held before (nothing, if the cycle has no survivor), and the other list is
\* as it was.
C15_NoHistoryInStore ==
    (/\ ret.fn = "new_callback" /\ ret.running
     /\ WellFormed(ret.buffer, LabelSize(ret.m)) /\ ret.exc = "none")
    => LET d == SortedByProb(Candidates(ret.buffer.frame, 1, LabelSize(ret.m)))
           survivors == NmsKept(d, NmsSuppress(d).del, Labels(ret.m), 1)
       IN IF ret.m = "face"
          THEN detected_faces = survivors /\ detected_hands = ret.hands0
          ELSE detected_hands = survivors /\ detected_faces = ret.faces0

\* a face cycle without a candidate after one that stored two faces: the
\* list is empty
C15_Witness ==
    /\ ret.fn = "new_callback" /\ ret.running /\ ret.m = "face"
    /\ ret.exc = "none"
    /\ ret.buffer = GoodBuffer(<<Anchor(142, 140, 22, 20, -1)>>, FACE_LABEL_SIZE)
    /\ Len(ret.faces0) = 2
    /\ detected_faces = <<>>

\* C20: a detector callback called while running is false leaves both lists
\* as they were; a draw callback called while running is false or before the
\* video caps are set leaves pan and tilt as they were and commands no servo.
C20_NoEffectWhileNotRunning ==
    /\ (ret.fn = "new_callback" /\ ~ret.running)
          => (/\ detected_faces = ret.faces0 /\ detected_hands = ret.hands0
              /\ ret.exc = "none")
    /\ (ret.fn = "draw_overlay_cb" /\ (~ret.running \/ ret.video_caps = "None"))
          => (/\ pan = ret.pan0 /\ tilt = ret.tilt0 /\ servo = ret.servo0
              /\ ret.cmds = 0)

\* after the main loop has quit, a face callback with a frame of two faces
\* leaves the one face stored before, which a draw cycle had tracked
C20_Witness ==
    /\ ret.fn = "new_callback" /\ ~ret.running /\ loop = "quit"
    /\ ret.m = "face" /\ Len(Candidates(ret.buffer.frame, 1, FACE_LABEL_SIZE)) = 2
    /\ WellFormed(ret.buffer, FACE_LABEL_SIZE)
    /\ Len(detected_faces) = 1 /\ detected_faces = ret.faces0
    /\ pan # PAN_INIT * GAIN

\* C21: in every draw cycle the entry whose centre drives the update of pan
\* and tilt is the entry the area pass found largest among the first 5, and
\* a cycle given a non-empty face list makes exactly one update, also when
\* the face callback clears and refills the list during the cycle.
C21_TrackedIsTheLargestSeen ==
    /\ cycle.tracked # <<>> =>
          /\ target_image_idx + 1 \in 1..Len(cycle.seen)
          /\ cycle.tracked[1] = cycle.seen[target_image_idx + 1]
    /\ (cycle.status \in {"returned", "IndexError", "NameError"} /\ cycle.faces > 0)
          => cycle.cmds = 1

\* ------------------------------------- the tracking update under a lasting error
\* Every draw cycle has a target whose errors keep their signs and exceed the
\* deadband: "down" is errorPan > 5 and errorTilt > 5, "up" is errorPan < -5
\* and errorTilt < -5, "apart" is errorPan > 5 and errorTilt < -5.
PersistDirs == {"down", "up", "apart"}
PersistFaces(dir) ==
    CASE dir = "down" -> {Det(1, 143, 144, 20, 20, 900), Det(1, 3937, 5203, 21, 20, 900)}
      [] dir = "up" -> {Det(1, 137, 136, 21, 22, 900), Det(1, -3657, -4922, 21, 20, 900)}
      [] dir = "apart" -> {Det(1, 143, 136, 20, 22, 900)}

InitPersist ==
    /\ ProgInit /\ ServoInit
    /\ call \in {[fn |-> "persist", dir |-> d] : d \in PersistDirs}
    /\ ret = NoRet
\* one draw cycle whose target is obj: lines 391-421
PersistCall(obj) ==
    /\ call.fn = "persist"
    /\ Track(obj)
    /\ ret' = [fn |-> "persist", errorPan |-> ErrorPan(Scaled(obj)),
               errorTilt |-> ErrorTilt(Scaled(obj)), pan0 |-> pan, tilt0 |-> tilt]
    /\ UNCHANGED <<progVars, call>>
NextPersist == \E obj \in PersistFaces(call.dir) : PersistCall(obj)
\* the pipeline keeps calling the draw callback, frame after frame
SpecPersist == InitPersist /\ [][NextPersist]_vars /\ WF_vars(NextPersist)

\* C22: when every draw cycle has a target with errorPan > 5, pan reaches 0
\* and stays 0 from then on; with errorPan < -5 it reaches 180 and stays;
\* tilt likewise reaches and keeps 0 under errorTilt > 5 and 135 under
\* errorTilt < -5.
C22_SaturatesAndStays ==
    <>[](/\ call.dir = "down" => (pan = 0 /\ tilt = 0)
         /\ call.dir = "up" => (pan = 180 * 180 /\ tilt = 135 * 180)
         /\ call.dir = "apart" => (pan = 0 /\ tilt = 135 * 180))

\* a cycle with the errors (6, -6) that found pan at 0 and tilt at 135 and
\* left them there
C22_Witness ==
    /\ ret.fn = "persist" /\ call.dir = "apart"
    /\ ret.errorPan = 6 /\ ret.errorTilt = -6
    /\ ret.pan0 = 0 /\ ret.tilt0 = 135 * 180
    /\ pan = 0 /\ tilt = 135 * 180

====
